---- MODULE Spec2Model ----
(***************************************************************************)
(* aws-cost-exporter: the report synchronisation pipeline.                 *)
(*                                                                         *)
(* main() loads the persisted state and builds the gatherer (newGatherer): *)
(* resolve the billing periods, Prefetch, Save, Compute.  Every scrape     *)
(* then runs the gatherer closure: re-resolve when the newest period is    *)
(* past due, UpdateReport for the newest period, and Save + Compute when   *)
(* the report changed.  UpdateReport is GetReportManifest (conditional     *)
(* on the watermark), ResetSqlite, FetchReport (one transaction and one    *)
(* marker file per report part) and the watermark assignment.              *)
(*                                                                         *)
(* Process 0 is the main goroutine; the processes of Scrapers are the      *)
(* goroutines net/http starts for scrape requests.                         *)
(***************************************************************************)
EXTENDS Integers, Sequences, FiniteSets, TLC

\* ------------------------------------------------------------------ bounds
MaxPeriod == 2      \* billing periods the remote bucket ever lists
MaxTime == 2        \* modification times a manifest goes through
MaxAsm == 2         \* assembly identifiers a period's report goes through
NParts == 2         \* report keys of a manifest
NCols == 3          \* columns FetchReport looks up, of the eleven it stores
MaxVal == 2         \* values a field of a report row takes

\* --------------------------------------------------------------- constants
KeepLast == 3       \* GetBillingPeriods keeps the last three periods

Scrapers == {1, 2}
Procs == {0} \cup Scrapers
PeriodIds == 1..MaxPeriod
ZeroTime == 0       \* time.Time{}
ManifestKinds == {"ok", "badtype", "badbucket", "noparts"}

VARIABLES
    listing,    \* remote: the period prefixes under the report root
    remote,     \* remote: per period, the manifest object [lm, asm]
    csv,        \* remote: a report part's header and row, and what was stored
    clock,      \* wall clock, in periods: period p has ended once p < clock
    store,      \* sqlite `records`: rows per [p, asm, part], with multiplicity
    markers,    \* repository/data/<start>-<assembly>-<part>.csv files
    disk,       \* the state file: [periods, lm]
    st,         \* state.State in memory: [periods, lm]
    metrics,    \* the registry's gauges: the store they were computed over
    pc,         \* per process, where it stands
    loc,        \* per process, its locals
    res,        \* per process, what its last UpdateReport returned
    trace,      \* per process, the calls of its current cycle, in order
    pre         \* per process, the shared state when its UpdateReport began

envVars == <<listing, remote, csv, clock>>
diskVars == <<store, markers, disk>>
memVars == <<st, metrics>>
procVars == <<pc, loc, res, trace, pre>>
vars == <<listing, remote, csv, clock, store, markers, disk, st, metrics,
          pc, loc, res, trace, pre>>

\* ----------------------------------------------------------------- helpers
NoMap == [p \in {} |-> 0]
Put(f, k, v) == [x \in DOMAIN f \cup {k} |-> IF x = k THEN v ELSE f[x]]
Min(S) == CHOOSE x \in S : \A y \in S : x <= y

NoRows == [r \in {} |-> 0]
Row(p, asm, part) == [p |-> p, asm |-> asm, part |-> part]
Count(s, r) == IF r \in DOMAIN s THEN s[r] ELSE 0
Insert(s, r) == Put(s, r, Count(s, r) + 1)

NoLoc == [period |-> 0, since |-> ZeroTime, kind |-> "none", asm |-> 0,
          part |-> 0, i |-> 0, out |-> "none"]
NoRes == [updated |-> FALSE, err |-> "none", notmod |-> FALSE]
NoState == [periods |-> <<>>, lm |-> NoMap]
NoPre == [store |-> NoRows, lm |-> NoMap, disk |-> NoState, metrics |-> NoRows]

\* sort.Sort(SortRecentFirst(periods)): Less is a[i] < a[j], so ascending.
RECURSIVE SortAsc(_)
SortAsc(S) == IF S = {} THEN <<>> ELSE <<Min(S)>> \o SortAsc(S \ {Min(S)})

\* As LastN, keeping the head of the slice: periods[:3].
LastN_First(s, n) == IF Len(s) > n THEN SubSeq(s, 1, n) ELSE s

LastN(s, n) == IF Len(s) > n THEN SubSeq(s, Len(s) - n + 1, Len(s)) ELSE s

GetBillingPeriods(ls) == LastN(SortAsc(ls), KeepLast)

IsPastDue(p, now) == p < now

\* The columns FetchReport looks up in a part's header, in the order of its
\* index() calls; the model keeps the first NCols of them.
AllColumns ==
    <<"bill/BillingPeriodStartDate", "bill/BillingPeriodEndDate",
      "product/ProductName", "lineItem/Operation", "lineItem/LineItemType",
      "lineItem/UsageType", "lineItem/UsageAmount", "pricing/unit",
      "lineItem/CurrencyCode", "lineItem/UnblendedCost",
      "lineItem/UsageAccountId">>
Required == {AllColumns[j] : j \in 1..NCols}
\* A column of the report that FetchReport does not store.
OtherColumn == "identity/LineItemId"
ColumnNames == Required \cup {OtherColumn}
Vals == 1..MaxVal

\* Headers: the column names of a part, each at most once, in any order.
Headers ==
    {h \in UNION {[1..k -> ColumnNames] : k \in 0..Cardinality(ColumnNames)} :
        \A i, j \in 1..Len(h) : h[i] = h[j] => i = j}

\* As index, for columns taken at the fixed position of the usual layout.
Index_Fixed(slice, item) ==
    (CHOOSE j \in 1..Len(AllColumns) : AllColumns[j] = item) - 1

\* index(slice, item): the first position of item, from 0, or -1.
Index(slice, item) ==
    IF \E j \in 1..Len(slice) : slice[j] = item
    THEN Min({j \in 1..Len(slice) : slice[j] = item}) - 1
    ELSE -1

\* record[i] of a Go slice panics unless 0 <= i < len(record).
InRange(record, i) == i \in 0..(Len(record) - 1)

\* The row of a line item as the report lays it out under a header.
WriteRow(header, vals) == [j \in 1..Len(header) |-> vals[header[j]]]

NoCsv == [header |-> <<>>, vals |-> [c \in ColumnNames |-> 1],
          out |-> "none", row |-> [c \in Required |-> 0]]

\* As ManifestError, without the comparison with config.BucketName.
ManifestError_NoBucketCheck(kind) ==
    IF kind = "badtype" THEN "unknown content type"
    ELSE IF kind = "noparts" THEN "no report keys"
    ELSE "none"

\* GetReportManifest's checks of the decoded manifest, in the code's order.
ManifestError(kind) ==
    IF kind = "badtype" THEN "unknown content type"
    ELSE IF kind = "badbucket" THEN "unexpected bucket name"
    ELSE IF kind = "noparts" THEN "no report keys"
    ELSE "none"

\* As NotModified, for a GetObject sent without IfModifiedSince.
NotModified_Never(lm, since) == FALSE

\* S3 answers NotModified to If-Modified-Since unless the object is newer.
NotModified(lm, since) == lm <= since

ResetSqlite(s) == NoRows

Compute(s) == s

Save(s) == s

\* As ShouldUpdate, without the exception for the last period.
ShouldUpdate_CachedOnly(isCached, isLast) == ~isCached

ShouldUpdate(isCached, isLast) == ~isCached \/ isLast

\* ------------------------------------------------------------------- state
Init ==
    /\ \E k \in 0..MaxPeriod :
          /\ listing = 1..k
          /\ clock = IF k = 0 THEN 1 ELSE k
    /\ remote = [p \in PeriodIds |-> [lm |-> 1, asm |-> 1]]
    /\ csv = NoCsv
    /\ store = NoRows
    /\ markers = {}
    /\ disk = NoState
    /\ st = NoState
    /\ metrics = NoRows
    /\ pc = [w \in Procs |-> IF w = 0 THEN "load" ELSE "idle"]
    /\ loc = [w \in Procs |-> NoLoc]
    /\ res = [w \in Procs |-> NoRes]
    /\ trace = [w \in Procs |-> <<>>]
    /\ pre = [w \in Procs |-> NoPre]

Goto(w, l) == pc' = [pc EXCEPT ![w] = l]
Ev(e, p) == [e |-> e, p |-> p]
Log(w, e) == trace' = [trace EXCEPT ![w] = Append(@, Ev(e, loc[w].period))]
Snapshot == [store |-> store, lm |-> st.lm, disk |-> disk, metrics |-> metrics]

\* A process holds sqlite's write lock from its first insert to its commit
\* or rollback.
InWriteTx(w) == pc[w] \in {"fr_mark", "fr_commit"}
WriteLockFree(w) == \A v \in Procs \ {w} : ~InWriteTx(v)

\* ------------------------------------------------------------ UpdateReport
\* UpdateReport's entry: read the period's watermark, zero time when absent.
CallUpdateReport(w, p, i) ==
    /\ Goto(w, "ur_get")
    /\ loc' = [loc EXCEPT ![w] =
                 [NoLoc EXCEPT !.period = p, !.i = i,
                               !.since = IF p \in DOMAIN st.lm THEN st.lm[p]
                                         ELSE ZeroTime]]
    /\ res' = [res EXCEPT ![w] = NoRes]
    /\ pre' = [pre EXCEPT ![w] = Snapshot]

Return(w, r) ==
    /\ Goto(w, "ur_ret")
    /\ res' = [res EXCEPT ![w] = r]

\* GetReportManifest fails: RefreshClient, GetObject (other than NotModified)
\* or the JSON decoder returns an error.
UR_GetError(w) ==
    /\ pc[w] = "ur_get"
    /\ Return(w, [NoRes EXCEPT !.err = "fetch"])
    /\ UNCHANGED <<envVars, diskVars, memVars, loc, trace, pre>>

\* As UR_NotModified, without the return on manifest == nil.
UR_NotModified_Proceeds(w) ==
    /\ pc[w] = "ur_get"
    /\ NotModified(remote[loc[w].period].lm, loc[w].since)
    /\ Goto(w, "ur_reset")
    /\ res' = [res EXCEPT ![w] = [NoRes EXCEPT !.notmod = TRUE]]
    /\ loc' = [loc EXCEPT ![w].asm = remote[loc[w].period].asm]
    /\ UNCHANGED <<envVars, diskVars, memVars, trace, pre>>

\* GetObject answers NotModified: manifest == nil, UpdateReport returns
\* (false, nil).
UR_NotModified(w) ==
    /\ pc[w] = "ur_get"
    /\ NotModified(remote[loc[w].period].lm, loc[w].since)
    /\ Return(w, [NoRes EXCEPT !.notmod = TRUE])
    /\ UNCHANGED <<envVars, diskVars, memVars, loc, trace, pre>>

\* As UR_GetManifest, with lastModified pointing into the state's map.
UR_GetManifest_WritesState(w) ==
    /\ pc[w] = "ur_get"
    /\ ~NotModified(remote[loc[w].period].lm, loc[w].since)
    /\ st' = [st EXCEPT !.lm = Put(@, loc[w].period, remote[loc[w].period].lm)]
    /\ \E kind \in ManifestKinds :
          IF ManifestError(kind) # "none"
          THEN /\ Return(w, [NoRes EXCEPT !.err = "invalid"])
               /\ loc' = [loc EXCEPT ![w].since = remote[loc[w].period].lm,
                                     ![w].kind = kind]
          ELSE /\ Goto(w, "ur_reset")
               /\ loc' = [loc EXCEPT ![w].since = remote[loc[w].period].lm,
                                     ![w].kind = kind,
                                     ![w].asm = remote[loc[w].period].asm]
               /\ UNCHANGED res
    /\ UNCHANGED <<envVars, diskVars, metrics, trace, pre>>

\* GetObject returns the manifest: the local lastModified takes the object's
\* modification time, then the manifest is decoded and validated.
UR_GetManifest(w) ==
    /\ pc[w] = "ur_get"
    /\ ~NotModified(remote[loc[w].period].lm, loc[w].since)
    /\ \E kind \in ManifestKinds :
          IF ManifestError(kind) # "none"
          THEN /\ Return(w, [NoRes EXCEPT !.err = "invalid"])
               /\ loc' = [loc EXCEPT ![w].since = remote[loc[w].period].lm,
                                     ![w].kind = kind]
          ELSE /\ Goto(w, "ur_reset")
               /\ loc' = [loc EXCEPT ![w].since = remote[loc[w].period].lm,
                                     ![w].kind = kind,
                                     ![w].asm = remote[loc[w].period].asm]
               /\ UNCHANGED res
    /\ UNCHANGED <<envVars, diskVars, memVars, trace, pre>>

\* fetcher.ResetSqlite(config, logger)
UR_Reset(w) ==
    /\ pc[w] = "ur_reset"
    /\ \/ /\ WriteLockFree(w)
          /\ store' = ResetSqlite(store)
          /\ Goto(w, "fr_part")
          /\ loc' = [loc EXCEPT ![w].part = 1]
          /\ Log(w, "reset")
          /\ UNCHANGED res
       \/ /\ Return(w, [NoRes EXCEPT !.err = "reset"])
          /\ UNCHANGED <<store, loc, trace>>
    /\ UNCHANGED <<envVars, markers, disk, memVars, pre>>

\* FetchReport, one report key: skip it when its marker file exists; else
\* download, decompress, read the header and insert the rows in a
\* transaction.  Before the first key RefreshClient or time.Parse may fail.
FR_Part(w) ==
    /\ pc[w] = "fr_part"
    /\ loc[w].part <= NParts
    /\ LET marked == Row(loc[w].period, loc[w].asm, loc[w].part) \in markers
       IN \/ /\ marked
             /\ loc' = [loc EXCEPT ![w].part = @ + 1]
             /\ UNCHANGED <<pc, res, trace>>
          \/ /\ ~marked
             /\ WriteLockFree(w)
             /\ Goto(w, "fr_mark")
             /\ Log(w, "download")
             /\ UNCHANGED <<loc, res>>
          \/ /\ ~marked \/ loc[w].part = 1
             /\ Return(w, [NoRes EXCEPT !.err = "ingest"])
             /\ UNCHANGED <<loc, trace>>
    /\ UNCHANGED <<envVars, diskVars, memVars, pre>>

\* A part's header without its first required column.
ShortHeader == Tail(SubSeq(AllColumns, 1, NCols))

\* FetchReport, one report key whose header lacks a required column: index()
\* returned -1 and nothing tests it, so the first pass of the row loop
\* evaluates record[-1] and panics.  No row was inserted; the deferred
\* Rollback runs.  The panic ends the process when it is in the main
\* goroutine (Prefetch); net/http recovers it in a scrape's goroutine, and
\* the closure returns no value.
FR_Panic(w) ==
    /\ pc[w] = "fr_part"
    /\ loc[w].part <= NParts
    /\ Row(loc[w].period, loc[w].asm, loc[w].part) \notin markers
    /\ \E c \in Required : ~InRange(ShortHeader, Index(ShortHeader, c))
    /\ Log(w, "panic")
    /\ IF w = 0 THEN Goto(0, "exited") /\ UNCHANGED loc
       ELSE Goto(w, "s_done") /\ loc' = [loc EXCEPT ![w].out = "panic"]
    /\ UNCHANGED <<envVars, diskVars, memVars, res, pre>>

\* os.Create(reportFile), before the commit.
FR_Mark(w) ==
    /\ pc[w] = "fr_mark"
    /\ \/ /\ markers' = markers \cup
                          {Row(loc[w].period, loc[w].asm, loc[w].part)}
          /\ Goto(w, "fr_commit")
          /\ UNCHANGED res
       \/ /\ Return(w, [NoRes EXCEPT !.err = "ingest"])
          /\ UNCHANGED markers
    /\ UNCHANGED <<envVars, store, disk, memVars, loc, trace, pre>>

\* tx.Commit(); on an error the deferred Rollback drops the part's rows.
FR_Commit(w) ==
    /\ pc[w] = "fr_commit"
    /\ \/ /\ store' = Insert(store,
                             Row(loc[w].period, loc[w].asm, loc[w].part))
          /\ loc' = [loc EXCEPT ![w].part = @ + 1]
          /\ Goto(w, "fr_part")
          /\ UNCHANGED res
       \/ /\ Return(w, [NoRes EXCEPT !.err = "ingest"])
          /\ UNCHANGED <<store, loc>>
    /\ UNCHANGED <<envVars, markers, disk, memVars, trace, pre>>

\* FetchReport returned nil: state.ReportLastModified[period] = lastModified
UR_Set(w) ==
    /\ pc[w] = "fr_part"
    /\ loc[w].part > NParts
    /\ st' = [st EXCEPT !.lm = Put(@, loc[w].period, loc[w].since)]
    /\ Return(w, [NoRes EXCEPT !.updated = TRUE])
    /\ Log(w, "ingested")
    /\ UNCHANGED <<envVars, diskVars, metrics, loc, pre>>

UpdateReport(w) ==
    \/ UR_GetError(w) \/ UR_NotModified(w) \/ UR_GetManifest(w)
    \/ UR_Reset(w)
    \/ FR_Part(w) \/ FR_Panic(w) \/ FR_Mark(w) \/ FR_Commit(w)
    \/ UR_Set(w)

\* ------------------------------------------------- main() and newGatherer
\* state.Load(config); an error ends the process (os.Exit(1)).
Load ==
    /\ pc[0] = "load"
    /\ \/ /\ st' = disk
          /\ Goto(0, "resolve")
       \/ /\ Goto(0, "exited")
          /\ UNCHANGED st
    /\ UNCHANGED <<envVars, diskVars, metrics, loc, res, trace, pre>>

\* newGatherer: periods, err := GetBillingPeriods(config);
\* state.Periods = periods
StartResolve ==
    /\ pc[0] = "resolve"
    /\ \/ /\ st' = [st EXCEPT !.periods = GetBillingPeriods(listing)]
          /\ Goto(0, "prefetch")
          /\ loc' = [loc EXCEPT ![0] = [NoLoc EXCEPT !.i = 1]]
       \/ /\ Goto(0, "exited")
          /\ UNCHANGED <<st, loc>>
    /\ UNCHANGED <<envVars, diskVars, metrics, res, trace, pre>>

\* Prefetch, one iteration of the loop over periods; past the last period
\* Prefetch returns nil and newGatherer goes on to Save.
Prefetch ==
    /\ pc[0] = "prefetch"
    /\ LET i == loc[0].i
           n == Len(st.periods)
       IN IF i > n
          THEN /\ Goto(0, "save")
               /\ UNCHANGED <<loc, res, trace, pre>>
          ELSE IF ShouldUpdate(st.periods[i] \in DOMAIN st.lm, i = n)
          THEN /\ CallUpdateReport(0, st.periods[i], i)
               /\ trace' = [trace EXCEPT ![0] =
                                Append(@, Ev("update", st.periods[i]))]
          ELSE /\ loc' = [loc EXCEPT ![0].i = i + 1]
               /\ UNCHANGED <<pc, res, trace, pre>>
    /\ UNCHANGED <<envVars, diskVars, memVars>>

\* Prefetch after UpdateReport returned: an error ends Prefetch, newGatherer
\* and the process.
PrefetchReturn ==
    /\ pc[0] = "ur_ret"
    /\ IF res[0].err # "none"
       THEN /\ Goto(0, "exited")
            /\ UNCHANGED loc
       ELSE /\ Goto(0, "prefetch")
            /\ loc' = [loc EXCEPT ![0].i = @ + 1]
    /\ UNCHANGED <<envVars, diskVars, memVars, res, trace, pre>>

\* newGatherer: state.Save(config)
StartSave ==
    /\ pc[0] = "save"
    /\ \/ /\ disk' = Save(st)
          /\ Goto(0, "compute")
       \/ /\ Goto(0, "exited")
          /\ UNCHANGED disk
    /\ UNCHANGED <<envVars, store, markers, memVars, loc, res, trace, pre>>

\* newGatherer: processor.Compute(config, reg, logger); then main registers
\* the handler and serves.
StartCompute ==
    /\ pc[0] = "compute"
    /\ \/ /\ metrics' = Compute(store)
          /\ Goto(0, "serving")
       \/ /\ Goto(0, "exited")
          /\ UNCHANGED metrics
    /\ UNCHANGED <<envVars, diskVars, st, loc, res, trace, pre>>

\* The exited process is started again: the files stay, the memory is new.
Restart ==
    /\ pc[0] = "exited"
    /\ Goto(0, "load")
    /\ st' = NoState
    /\ metrics' = NoRows
    /\ loc' = [loc EXCEPT ![0] = NoLoc]
    /\ res' = [res EXCEPT ![0] = NoRes]
    /\ trace' = [trace EXCEPT ![0] = <<>>]
    /\ pre' = [pre EXCEPT ![0] = NoPre]
    /\ UNCHANGED <<envVars, diskVars>>

Startup ==
    \/ Load \/ StartResolve \/ Prefetch \/ PrefetchReturn
    \/ StartSave \/ StartCompute \/ Restart
    \/ UpdateReport(0)

\* ------------------------------------------------- the gatherer, per scrape
Finish(w, out) ==
    /\ Goto(w, "s_done")
    /\ loc' = [loc EXCEPT ![w].out = out]

\* The closure's entry: nothing to do without periods; re-resolve when the
\* last period is past due; else UpdateReport for the last period.
ScrapeStart(w) ==
    /\ pc[0] = "serving"
    /\ pc[w] = "idle"
    /\ trace' = [trace EXCEPT ![w] = <<>>]
    /\ IF Len(st.periods) = 0
       THEN /\ Finish(w, "metrics")
            /\ UNCHANGED <<res, pre>>
       ELSE LET period == st.periods[Len(st.periods)]
            IN IF IsPastDue(period, clock)
               THEN /\ Goto(w, "s_resolve")
                    /\ UNCHANGED <<loc, res, pre>>
               ELSE CallUpdateReport(w, period, 0)
    /\ UNCHANGED <<envVars, diskVars, memVars>>

\* As ScrapeResolve, without period = periods[len(periods)-1]: the period
\* read before the resolution is the one checked.
ScrapeResolve_KeepsPeriod(w) ==
    /\ pc[w] = "s_resolve"
    /\ \/ /\ Finish(w, "error")
          /\ UNCHANGED <<st, res, pre>>
       \/ LET periods == GetBillingPeriods(listing)
          IN /\ st' = [st EXCEPT !.periods = periods]
             /\ IF Len(periods) = 0
                THEN /\ Finish(w, "panic")
                     /\ UNCHANGED <<res, pre>>
                ELSE CallUpdateReport(w, st.periods[Len(st.periods)], 0)
    /\ UNCHANGED <<envVars, diskVars, metrics, trace>>

\* As ScrapeResolve, with state.Periods = periods ahead of the test of err:
\* a failed resolution leaves the nil slice in the state.
ScrapeResolve_AssignsFirst(w) ==
    /\ pc[w] = "s_resolve"
    /\ \/ /\ Finish(w, "error")
          /\ st' = [st EXCEPT !.periods = <<>>]
          /\ UNCHANGED <<res, pre>>
       \/ LET periods == GetBillingPeriods(listing)
          IN /\ st' = [st EXCEPT !.periods = periods]
             /\ IF Len(periods) = 0
                THEN /\ Finish(w, "panic")
                     /\ UNCHANGED <<res, pre>>
                ELSE CallUpdateReport(w, periods[Len(periods)], 0)
    /\ UNCHANGED <<envVars, diskVars, metrics, trace>>

\* periods, err := GetBillingPeriods(config); state.Periods = periods;
\* period = periods[len(periods)-1]. GetBillingPeriods returns (nil, err)
\* when RefreshClient, a listing page or ParseBillingPeriod of a prefix fails.
ScrapeResolve(w) ==
    /\ pc[w] = "s_resolve"
    /\ \/ /\ Finish(w, "error")
          /\ UNCHANGED <<st, res, pre>>
       \/ LET periods == GetBillingPeriods(listing)
          IN /\ st' = [st EXCEPT !.periods = periods]
             /\ IF Len(periods) = 0
                THEN /\ Finish(w, "panic")
                     /\ UNCHANGED <<res, pre>>
                ELSE CallUpdateReport(w, periods[Len(periods)], 0)
    /\ UNCHANGED <<envVars, diskVars, metrics, trace>>

\* As ScrapeReturn, with Compute called before Save.
ScrapeReturn_ComputeFirst(w) ==
    /\ pc[w] = "ur_ret"
    /\ IF res[w].err # "none" THEN Finish(w, "error")
       ELSE IF res[w].updated THEN Goto(w, "s_compute") /\ UNCHANGED loc
       ELSE Finish(w, "metrics")
    /\ UNCHANGED <<envVars, diskVars, memVars, res, trace, pre>>

\* changed, err := collector.UpdateReport(...) has returned.
ScrapeReturn(w) ==
    /\ pc[w] = "ur_ret"
    /\ IF res[w].err # "none" THEN Finish(w, "error")
       ELSE IF res[w].updated THEN Goto(w, "s_save") /\ UNCHANGED loc
       ELSE Finish(w, "metrics")
    /\ UNCHANGED <<envVars, diskVars, memVars, res, trace, pre>>

\* state.Save(config)
ScrapeSave(w) ==
    /\ pc[w] = "s_save"
    /\ \/ /\ disk' = Save(st)
          /\ Goto(w, "s_compute")
          /\ Log(w, "saved")
          /\ UNCHANGED loc
       \/ /\ Finish(w, "error")
          /\ Log(w, "save failed")
          /\ UNCHANGED disk
    /\ UNCHANGED <<envVars, store, markers, memVars, res, pre>>

\* processor.Compute(config, reg, logger), then reg.Gather()
ScrapeCompute(w) ==
    /\ pc[w] = "s_compute"
    /\ \/ /\ metrics' = Compute(store)
          /\ Finish(w, "metrics")
          /\ Log(w, "computed")
       \/ /\ Finish(w, "error")
          /\ Log(w, "compute failed")
          /\ UNCHANGED metrics
    /\ UNCHANGED <<envVars, diskVars, st, res, pre>>

\* The closure has returned; the handler writes the response.
ScrapeEnd(w) ==
    /\ pc[w] = "s_done"
    /\ Goto(w, "idle")
    /\ loc' = [loc EXCEPT ![w] = NoLoc]
    /\ res' = [res EXCEPT ![w] = NoRes]
    /\ trace' = [trace EXCEPT ![w] = <<>>]
    /\ pre' = [pre EXCEPT ![w] = NoPre]
    /\ UNCHANGED <<envVars, diskVars, memVars>>

Scrape(w) ==
    \/ ScrapeStart(w) \/ ScrapeResolve(w) \/ ScrapeReturn(w)
    \/ ScrapeSave(w) \/ ScrapeCompute(w) \/ ScrapeEnd(w)
    \/ UpdateReport(w)

\* ---------------------------------------------------------- the environment
\* The report of a listed period is rewritten: a later modification time,
\* the same or the next assembly identifier.
RemoteChange ==
    /\ \E p \in listing :
          /\ remote[p].lm < MaxTime
          /\ \E a \in {remote[p].asm, remote[p].asm + 1} :
                /\ a <= MaxAsm
                /\ remote' = [remote EXCEPT ![p] = [lm |-> @.lm + 1, asm |-> a]]
    /\ UNCHANGED <<listing, csv, clock, diskVars, memVars, procVars>>

\* Time passes: the period `clock` ends.
Tick ==
    /\ clock <= MaxPeriod
    /\ clock' = clock + 1
    /\ UNCHANGED <<listing, remote, csv, diskVars, memVars, procVars>>

\* The remote lists the next period, once it has begun.
NewPeriod ==
    /\ \E p \in PeriodIds :
          /\ p = Cardinality(listing) + 1
          /\ p <= clock
          /\ listing' = listing \cup {p}
    /\ UNCHANGED <<remote, csv, clock, diskVars, memVars, procVars>>

Environment == RemoteChange \/ Tick \/ NewPeriod

\* One scrape at a time.
Next == Startup \/ Scrape(1) \/ Environment

Spec == Init /\ [][Next]_vars

\* Scrapes served concurrently, over a bucket that lists one period and a
\* process that is not started again.
InitConc == Init /\ listing = {1}

StartupOnce ==
    \/ Load \/ StartResolve \/ Prefetch \/ PrefetchReturn
    \/ StartSave \/ StartCompute
    \/ UpdateReport(0)

NextConc ==
    StartupOnce \/ (\E w \in Scrapers : Scrape(w)) \/ RemoteChange \/ Tick

SpecConc == InitConc /\ [][NextConc]_vars

\* Period resolution alone, over a bucket that lists any of MaxListed
\* periods: more than GetBillingPeriods keeps.
MaxListed == 5

InitPeriods ==
    /\ listing \in SUBSET (1..MaxListed)
    /\ clock = 1
    /\ remote = [p \in PeriodIds |-> [lm |-> 1, asm |-> 1]]
    /\ csv = NoCsv
    /\ store = NoRows
    /\ markers = {}
    /\ disk = NoState
    /\ st = NoState
    /\ metrics = NoRows
    /\ pc = [w \in Procs |-> IF w = 0 THEN "load" ELSE "idle"]
    /\ loc = [w \in Procs |-> NoLoc]
    /\ res = [w \in Procs |-> NoRes]
    /\ trace = [w \in Procs |-> <<>>]
    /\ pre = [w \in Procs |-> NoPre]

NextPeriods == Load \/ StartResolve \/ Restart

SpecPeriods == InitPeriods /\ [][NextPeriods]_vars

\* The oldest of several listed prefixes is deleted from the bucket (an
\* expiry rule, an operator): the listing shrinks.
RemotePrune ==
    /\ Cardinality(listing) > 1
    /\ listing' = listing \ {Min(listing)}
    /\ UNCHANGED <<remote, csv, clock, diskVars, memVars, procVars>>

\* One scrape at a time over a bucket whose listing only shrinks.
NextPrune == Startup \/ Scrape(1) \/ RemoteChange \/ Tick \/ RemotePrune

SpecPrune == Init /\ [][NextPrune]_vars

\* Every report prefix is deleted from the bucket (the report definition
\* was removed, the bucket emptied): the listing has no prefix, without error.
RemoteClear ==
    /\ listing # {}
    /\ listing' = {}
    /\ UNCHANGED <<remote, csv, clock, diskVars, memVars, procVars>>

\* One scrape at a time over a bucket whose listing may be emptied.
NextClear == Startup \/ Scrape(1) \/ RemoteChange \/ Tick \/ RemoteClear

SpecClear == Init /\ [][NextClear]_vars

\* One data row of one report part, over every header and every row:
\* FetchReport's index() calls and its stmt.Exec(record[...], ...).
InitCsv ==
    /\ csv \in {[NoCsv EXCEPT !.header = h, !.vals = v] :
                  h \in Headers, v \in [ColumnNames -> Vals]}
    /\ listing = {}
    /\ clock = 1
    /\ remote = [p \in PeriodIds |-> [lm |-> 1, asm |-> 1]]
    /\ store = NoRows
    /\ markers = {}
    /\ disk = NoState
    /\ st = NoState
    /\ metrics = NoRows
    /\ pc = [w \in Procs |-> IF w = 0 THEN "load" ELSE "idle"]
    /\ loc = [w \in Procs |-> NoLoc]
    /\ res = [w \in Procs |-> NoRes]
    /\ trace = [w \in Procs |-> <<>>]
    /\ pre = [w \in Procs |-> NoPre]

\* The first pass of the row loop: the arguments of the debug log line and
\* of stmt.Exec are record[...] at the positions index() returned.
InsertRecord ==
    /\ csv.out = "none"
    /\ LET record == WriteRow(csv.header, csv.vals)
           at == [c \in Required |-> Index(csv.header, c)]
       IN IF \E c \in Required : ~InRange(record, at[c])
          THEN csv' = [csv EXCEPT !.out = "panic"]
          ELSE csv' = [csv EXCEPT !.out = "inserted",
                                  !.row = [c \in Required |-> record[at[c] + 1]]]
    /\ UNCHANGED <<listing, remote, clock, diskVars, memVars, procVars>>

NextCsv == InsertRecord

SpecCsv == InitCsv /\ [][NextCsv]_vars

\* The bucket is versioned and the current version of a manifest is deleted:
\* the version before it is current again, with its older modification time.
RemoteRollback ==
    /\ \E p \in listing :
          /\ remote[p].lm > 1
          /\ \E a \in {remote[p].asm, remote[p].asm - 1} :
                /\ a >= 1
                /\ remote' = [remote EXCEPT ![p] = [lm |-> @.lm - 1, asm |-> a]]
    /\ UNCHANGED <<listing, csv, clock, diskVars, memVars, procVars>>

\* One scrape at a time over a bucket that lists one period, whose manifest
\* moves forwards and backwards.
NextRollback ==
    Startup \/ Scrape(1) \/ RemoteChange \/ RemoteRollback \/ Tick

SpecRollback == InitConc /\ [][NextRollback]_vars

\* ------------------------------------------------------------------ claims
InUpdateReport(w) ==
    pc[w] \in {"ur_get", "ur_reset", "fr_part", "fr_mark", "fr_commit"}
HasBefore(t, e, j) == \E i \in 1..(j - 1) : t[i].e = e
LastIs(t, e) == Len(t) > 0 /\ t[Len(t)].e = e
\* The trace ends with a reset followed by part downloads only.
ResetThenParts(t) ==
    \E j \in 1..Len(t) :
       /\ t[j].e = "reset"
       /\ \A k \in (j + 1)..Len(t) : t[k].e = "download"
Range(q) == {q[j] : j \in 1..Len(q)}
HasPart(s, p, part) == \E a \in 1..MaxAsm : Count(s, Row(p, a, part)) >= 1

\* C1: when UpdateReport returns an ingestion error (a part's download,
\* decompression, row insert, marker or commit failed), the store holds
\* exactly the records it held before UpdateReport was called.
C1_FailedIngestionLeavesStore ==
    \A w \in Procs :
       (pc[w] = "ur_ret" /\ res[w].err = "ingest") => store = pre[w].store

\* C2: once a scrape's conditional manifest fetch reported NotModified,
\* UpdateReport has returned (false, nil) and the cycle made no reset, no
\* download, no Save and no Compute; the store, the watermark map, the state
\* file and the metrics are those of the cycle's start, and the scrape ends
\* with the metric set.
C2_NotModifiedDoesNothing ==
    \A w \in Scrapers :
       res[w].notmod =>
          /\ pc[w] \in {"ur_ret", "s_done"}
          /\ ~res[w].updated /\ res[w].err = "none"
          /\ trace[w] = <<>>
          /\ store = pre[w].store
          /\ st.lm = pre[w].lm
          /\ disk = pre[w].disk
          /\ metrics = pre[w].metrics
          /\ pc[w] = "s_done" => loc[w].out = "metrics"

C2_Witness ==
    /\ pc[1] = "s_done" /\ res[1].notmod
    /\ loc[1].since > ZeroTime
    /\ store # NoRows

\* C3: the watermark map of the in-memory state changes inside UpdateReport
\* only in the step that returns updated = true, after a valid manifest, a
\* reset and the ingestion of every part, and then only at the call's
\* period; an UpdateReport that returns an error leaves the map as it was
\* when the call began; outside UpdateReport only loading the state at
\* process start changes it.
C3_WatermarkOnlyOnSuccess ==
    [][/\ \A w \in Procs :
            /\ (InUpdateReport(w) /\ st'.lm # st.lm) =>
                  /\ pc'[w] = "ur_ret" /\ res'[w].updated
                  /\ loc[w].kind = "ok"
                  /\ loc[w].part > NParts
                  /\ ResetThenParts(trace[w])
                  /\ st'.lm = Put(st.lm, loc[w].period, loc[w].since)
            /\ (InUpdateReport(w) /\ pc'[w] = "ur_ret"
                                  /\ res'[w].err # "none") =>
                  st'.lm = pre[w].lm
       /\ ((\A w \in Procs : ~InUpdateReport(w)) /\ st'.lm # st.lm) =>
             pc[0] \in {"load", "exited"}
      ]_vars

C3_Witness ==
    /\ pc[1] = "ur_ret"
    /\ res[1].err \in {"invalid", "reset", "ingest"}
    /\ loc[1].period \in DOMAIN st.lm
    /\ loc[1].since > st.lm[loc[1].period]

\* C4: in a scrape, Save is called only right after UpdateReport returned
\* updated = true, Compute is called only right after that Save succeeded
\* (the state file then holds the advanced watermark), and a scrape whose
\* report changed and that returns the metric set did exactly: ingested,
\* saved, computed.
C4_IngestThenSaveThenCompute ==
    \A w \in Scrapers :
       LET t == trace[w]
       IN /\ \A j \in 1..Len(t) :
                /\ t[j].e \in {"saved", "save failed"} =>
                      HasBefore(t, "ingested", j)
                /\ t[j].e \in {"computed", "compute failed"} =>
                      /\ HasBefore(t, "saved", j)
                      /\ t[j - 1].e = "saved"
          /\ pc[w] = "s_save" => res[w].updated /\ LastIs(t, "ingested")
          /\ pc[w] = "s_compute" =>
                /\ LastIs(t, "saved")
                /\ loc[w].period \in DOMAIN disk.lm
                /\ disk.lm[loc[w].period] = loc[w].since
          /\ (pc[w] = "s_done" /\ res[w].updated /\ loc[w].out = "metrics") =>
                /\ Len(t) >= 3
                /\ t[Len(t) - 2].e = "ingested"
                /\ t[Len(t) - 1].e = "saved"
                /\ t[Len(t)].e = "computed"

C4_Witness ==
    /\ pc[1] = "s_done" /\ res[1].updated /\ loc[1].out = "metrics"
    /\ LastIs(trace[1], "computed")

\* C5: a scrape that ingested a changed report and then failed in Save or
\* Compute leaves the watermark map as it was when its UpdateReport began,
\* so that the next scrape fetches the manifest again; hence a scrape ends
\* in "no change" only when the metrics are those computed over the store.
C5_FailedCycleIsRetried ==
    \A w \in Scrapers :
       /\ (pc[w] = "s_done" /\ loc[w].out = "error" /\ res[w].updated) =>
             st.lm = pre[w].lm
       /\ (pc[w] = "s_done" /\ loc[w].out = "metrics" /\ res[w].notmod) =>
             metrics = Compute(store)

InPipeline(w) ==
    pc[w] \in {"ur_get", "ur_reset", "fr_part", "fr_mark", "fr_commit",
               "ur_ret", "s_save", "s_compute"}

\* C7: at most one scrape at a time is between the start of its
\* UpdateReport and the end of its Save and Compute.
C7_OnePipelineRunAtATime ==
    Cardinality({w \in Scrapers : InPipeline(w)}) <= 1

IsUpdate(ev) == ev.e = "update"
Updates(t) ==
    LET u == SelectSeq(t, IsUpdate) IN [j \in 1..Len(u) |-> u[j].p]

\* C8: while Prefetch runs and when it has returned nil, the periods it has
\* called UpdateReport for are, in list order, exactly the periods it has
\* gone through that had no watermark in the loaded state or are the last
\* of the list.
C8_PrefetchRule ==
    pc[0] \in {"prefetch", "save", "ur_get", "ur_reset", "fr_part",
               "fr_mark", "fr_commit", "ur_ret"} =>
       LET n == Len(st.periods)
           done == IF pc[0] \in {"prefetch", "save"} THEN loc[0].i - 1
                   ELSE loc[0].i
           Wanted(p) == p \notin DOMAIN disk.lm \/ p = st.periods[n]
       IN /\ done \in 0..n
          /\ pc[0] = "save" => done = n
          /\ Updates(trace[0]) = SelectSeq(SubSeq(st.periods, 1, done), Wanted)

C8_Witness ==
    /\ pc[0] = "save"
    /\ Len(st.periods) = 2
    /\ Range(st.periods) \subseteq DOMAIN disk.lm
    /\ Updates(trace[0]) = <<st.periods[2]>>

C10_UntrustedManifestRejected ==
    \A w \in Procs :
       loc[w].kind \in {"badtype", "badbucket", "noparts"} =>
          /\ pc[w] \in {"ur_ret", "s_done", "exited"}
          /\ res[w].err = "invalid" /\ ~res[w].updated
          /\ IF w = 0 THEN LastIs(trace[w], "update") ELSE trace[w] = <<>>
          /\ store = pre[w].store
          /\ st.lm = pre[w].lm
          /\ disk = pre[w].disk

C10_Witness ==
    /\ pc[1] = "ur_ret"
    /\ loc[1].kind = "badbucket"
    /\ store # NoRows
    /\ loc[1].period \in DOMAIN st.lm

\* What is recorded for a period in map b is no older than what map a holds.
NoOlder(a, b) == \A p \in DOMAIN a : p \in DOMAIN b /\ b[p] >= a[p]

\* C11: no step of a startup or of a scrape lowers or removes the watermark
\* of a period, in the state the process holds and in the state file: each
\* value written is greater than or equal to the value it replaces, also
\* when the remote manifest went back to an older modification time.
C11_WatermarkNeverDecreases ==
    [][/\ pc[0] # "exited" => NoOlder(st.lm, st'.lm)
       /\ NoOlder(disk.lm, disk'.lm)]_vars

C11_Witness ==
    /\ pc[1] = "ur_ret" /\ res[1].updated
    /\ loc[1].period \in DOMAIN pre[1].lm
    /\ pre[1].lm[loc[1].period] < st.lm[loc[1].period]
    /\ \E p \in DOMAIN st.lm : remote[p].lm < st.lm[p]

\* C12: the sequence GetBillingPeriods returns for a listing of well-formed
\* prefixes holds the min(3, n) greatest listed periods in ascending order,
\* the most recent last, and is the same at every resolution of that listing.
C12_ThreeMostRecentAscending ==
    pc[0] = "prefetch" =>
       LET r == st.periods
           n == Cardinality(listing)
       IN /\ Len(r) = IF n < 3 THEN n ELSE 3
          /\ \A j \in 1..(Len(r) - 1) : r[j] < r[j + 1]
          /\ Range(r) \subseteq listing
          /\ \A p \in listing \ Range(r) : \A q \in Range(r) : p < q
          /\ r = GetBillingPeriods(listing)

C12_Witness ==
    /\ pc[0] = "prefetch"
    /\ Cardinality(listing) > 3
    /\ Len(st.periods) = 3
    /\ st.periods[1] + 1 < st.periods[2]

\* C13: a scrape whose period resolution fails (a listing page cannot be
\* read, a prefix is malformed) returns the error, and from its start to its
\* return the known periods, the watermark map, the store and the state
\* file are left as they were.
C13_FailedResolutionChangesNothing ==
    [][\A w \in Scrapers :
          (\/ pc[w] = "idle" /\ pc'[w] = "s_resolve"
           \/ /\ pc[w] = "s_resolve"
              /\ pc'[w] = "s_done" /\ loc'[w].out = "error") =>
             /\ UNCHANGED <<st, store, markers, disk, metrics>>
             /\ res'[w] = NoRes]_vars

C13_Witness ==
    /\ pc[1] = "s_done" /\ loc[1].out = "error" /\ loc[1].period = 0
    /\ Len(st.periods) >= 1
    /\ st.lm # NoMap
    /\ store # NoRows

Last(q) == q[Len(q)]

\* C14: a scrape resolves the periods again exactly when the last known
\* period is past due, and only then does the known list change; the
\* manifest check it goes on to is made once, for the last entry of the
\* list as it then stands, so for a period the resolution has just added.
C14_CheckedPeriodIsLastAfterRefresh ==
    [][\A w \in Scrapers :
          /\ (pc[w] = "idle" /\ pc'[w] # "idle") =>
                /\ pc'[w] = "s_resolve" <=>
                      (Len(st.periods) > 0 /\ IsPastDue(Last(st.periods), clock))
                /\ st' = st
                /\ pc'[w] = "ur_get" => loc'[w].period = Last(st.periods)
          /\ (pc[w] = "s_resolve" /\ pc'[w] = "ur_get") =>
                /\ st'.periods = GetBillingPeriods(listing)
                /\ loc'[w].period = Last(st'.periods)
          /\ (pc[0] = "serving" /\ st'.periods # st.periods) =>
                \E v \in Scrapers : pc[v] = "s_resolve"
          /\ (pc[w] # "ur_get" /\ pc'[w] = "ur_get") =>
                pc[w] \in {"idle", "s_resolve"}
          /\ (pc[w] \notin {"idle", "s_resolve"} /\ pc'[w] # "idle") =>
                loc'[w].period = loc[w].period]_vars

C14_Witness ==
    /\ pc[1] = "ur_get" /\ trace[1] = <<>>
    /\ disk.periods = <<1>>
    /\ st.periods = <<1, 2>>
    /\ loc[1].period = 2

\* C15: when a part's header lacks a required column, UpdateReport returns
\* an error value to its caller, no row of that part is committed and the
\* watermark map is what it was when the call began.
C15_MissingColumnReturnsError ==
    \A w \in Procs :
       LastIs(trace[w], "panic") =>
          /\ res[w].err = "ingest"
          /\ \A a \in 1..MaxAsm :
                Count(store, Row(loc[w].period, a, loc[w].part)) =
                   Count(pre[w].store, Row(loc[w].period, a, loc[w].part))
          /\ st.lm = pre[w].lm

\* C16: when UpdateReport returns an untrusted-manifest error for a period
\* of Prefetch that is not the last, Prefetch goes on to the next period.
C16_PrefetchGoesOnAfterUntrusted ==
    [][(/\ pc[0] = "ur_ret" /\ res[0].err = "invalid"
        /\ loc[0].i < Len(st.periods)
        /\ pc'[0] # "ur_ret") =>
          (pc'[0] = "prefetch" /\ loc'[0].i = loc[0].i + 1)]_vars

\* C17: when a startup has saved and when a scrape has returned metrics,
\* the state file holds the period list that the process holds in memory,
\* also when the scrape resolved the periods again and found the checked
\* manifest unchanged.
C17_PersistedEqualsMemory ==
    /\ pc[0] = "compute" => disk.periods = st.periods
    /\ \A w \in Scrapers :
          (pc[w] = "s_done" /\ loc[w].out = "metrics") =>
             disk.periods = st.periods

HeaderOk(h) == \A c \in Required : \E j \in 1..Len(h) : h[j] = c

\* C18: for a part whose header holds every required column, the record
\* stored for a row holds, per column, the row's field of that name,
\* whatever the order of the header's columns.
C18_FieldsByHeaderName ==
    (csv.out # "none" /\ HeaderOk(csv.header)) =>
       /\ csv.out = "inserted"
       /\ \A c \in Required : csv.row[c] = csv.vals[c]

C18_Witness ==
    /\ csv.out = "inserted"
    /\ csv.header[1] # AllColumns[1]
    /\ \E j \in 1..Len(csv.header) : csv.header[j] = OtherColumn
    /\ \E c, d \in Required : csv.row[c] # csv.row[d]

\* C19: the process ends on no other error than a failed state.Load.
C19_OnlyLoadFailureIsFatal ==
    [][(pc[0] # "exited" /\ pc'[0] = "exited") => pc[0] = "load"]_vars

\* C20: when UpdateReport returns updated = true, the store holds the rows
\* of every part of the manifest it fetched, also when marker files of
\* those parts existed before the call.
C20_UpdatedMeansAllPartsStored ==
    \A w \in Procs :
       (pc[w] = "ur_ret" /\ res[w].updated) =>
          \A part \in 1..NParts :
             Count(store, Row(loc[w].period, loc[w].asm, part)) >= 1

\* C21: when the ingestion of a part fails after its download began, at the
\* creation of its marker file or at its commit, no marker file of that part
\* exists when UpdateReport returns.
C21_NoMarkerAfterFailedPart ==
    [][\A w \in Procs :
          (pc[w] \in {"fr_mark", "fr_commit"} /\ pc'[w] = "ur_ret") =>
             Row(loc[w].period, loc[w].asm, loc[w].part) \notin markers']_vars

\* C22: a scrape that ends without having called UpdateReport, so at the
\* choice of the period to check, ends with a metric set or an error value,
\* also when the periods were resolved again to an empty list.
C22_NoSelectionFromEmptyList ==
    \A w \in Scrapers :
       (pc[w] = "s_done" /\ loc[w].period = 0) =>
          loc[w].out \in {"metrics", "error"}

====
